---- MODULE Spec2Model ----
(***************************************************************************)
(* adsdb.py: the DB API v2.0 adapter over the ADS dbcapi client library.   *)
(*                                                                         *)
(* The model follows the Connection and Cursor classes of src/adsdb.py.    *)
(* Every method is an operator from a "world" record (the Python objects'  *)
(* fields plus the state of the native handles) to the world after the     *)
(* call; an action applies one public method to the current world.  The    *)
(* native library is the environment: what its entry points return is an   *)
(* input of the action, drawn from a small set.                            *)
(*                                                                         *)
(* Exceptions are strings (the class name), NoExc when none is raised.     *)
(* In a world, `tr` is the list of native calls the running method has     *)
(* issued, each with the handle it was given and the state that handle was *)
(* in; `binds` is what its ads_bind_param calls were given; `exc` is the   *)
(* exception it raised and `ret` what it returned.                         *)
(***************************************************************************)
EXTENDS Integers, Sequences, FiniteSets, TLC

VARIABLES
    phase,        \* life of the Connection object: "none", "open", "failed", "deleted"
    c,            \* Connection.c: PyNone, NullPtr or the connection handle
    cursors,      \* Connection.cursors: the set of tracked cursors
    cursorsNone,  \* TRUE once Connection.cursors has been set to None
    cur,          \* the Cursor objects' fields, per cursor
    nconn,        \* native state of the connection handle
    nstmt,        \* native state of every statement handle
    nextStmt,     \* the next statement handle ads_prepare hands out
    depth,        \* number of connection-scoped blocks entered and not left
    callbacks,    \* CONVERSION_CALLBACKS: the native type tags with a callback
    root          \* the Root object: its life, its api bindings, its native calls

vars ==
    <<phase, c, cursors, cursorsNone, cur, nconn, nstmt, nextStmt, depth, callbacks, root>>

----------------------------------------------------------------------------
(* Bounds of the model *)

MaxCursors == 2
MaxStmts == 2
MaxBatch == 3
MaxRows == 2
MaxDepth == 1
MaxParams == 2
MaxConns == 3

(* Values of the program *)

PyNone == 0
NullPtr == -1
ConnHandle == 1

API_VERSION == 1
API_VERSION_EX == 2

A_INVALID_TYPE == 0
A_BINARY == 1
A_STRING == 2
A_DOUBLE == 3
A_VAL64 == 4
A_UVAL64 == 5
A_VAL32 == 6
A_UVAL32 == 7
A_VAL16 == 8
A_UVAL16 == 9
A_VAL8 == 10
A_UVAL8 == 11
A_NCHAR == 12
A_DECIMAL == 13
A_DATE == 14
A_TIME == 15
A_TIMESTAMP == 16

DT_NOTYPE == 0
DT_DATE == 384
DT_TIME == 388
DT_TIMESTAMP == 392
DT_VARCHAR == 448
DT_FIXCHAR == 452
DT_LONGVARCHAR == 456
DT_STRING == 460
DT_DOUBLE == 480
DT_FLOAT == 482
DT_DECIMAL == 484
DT_INT == 496
DT_SMALLINT == 500
DT_BINARY == 524
DT_LONGBINARY == 528
DT_TINYINT == 604
DT_BIGINT == 608
DT_UNSINT == 612
DT_UNSSMALLINT == 616
DT_UNSBIGINT == 620
DT_BIT == 624
DT_NSTRING == 628
DT_NFIXCHAR == 632
DT_NVARCHAR == 636
DT_LONGNVARCHAR == 640

DD_INVALID == 0
DD_INPUT == 1
DD_OUTPUT == 2
DD_INPUT_OUTPUT == 3

NoExc == ""

CursorIds == 1..MaxCursors
StmtHandles == 1..MaxStmts

\* Python truth value of a handle field: None and a null pointer are falsy.
Truthy(h) == h # PyNone /\ h # NullPtr

NoDescription == <<>>
NoConverter == <<>>

\* Cursor.__init__
Cursor_init(parentSet) ==
    [ exists |-> TRUE, parent |-> parentSet, arraysize |-> 1, converter |-> NoConverter,
      rowcount |-> -1, stmt |-> PyNone, description |-> NoDescription ]

\* A cursor object that has not been created yet.
NoCursor ==
    [ exists |-> FALSE, parent |-> FALSE, arraysize |-> 1, converter |-> NoConverter,
      rowcount |-> -1, stmt |-> PyNone, description |-> NoDescription ]

\* A statement handle ads_prepare has not handed out yet.
NoStmt == [ st |-> "unalloc", params |-> <<>>, cols |-> <<>>, total |-> 0, pos |-> 0 ]

World ==
    [ c |-> c, cursors |-> cursors, cursorsNone |-> cursorsNone, cur |-> cur,
      nconn |-> nconn, nstmt |-> nstmt, nextStmt |-> nextStmt,
      tr |-> <<>>, binds |-> <<>>, exc |-> NoExc, ret |-> <<>>, none |-> FALSE ]

\* raise: the world with exception e pending
Raise(w, e) == [w EXCEPT !.exc = e]

Return(w, v) == [w EXCEPT !.ret = v]

\* return None
ReturnNone(w) == [w EXCEPT !.ret = <<>>, !.none = TRUE]

\* Sequencing: the statements F follow the call that ended in world w,
\* unless that call raised.
Then(w, F(_)) == IF w.exc # NoExc THEN w ELSE F(w)

\* State of the handle a native call is given, at the time of the call.
StmtState(w, h) == IF h \in StmtHandles THEN w.nstmt[h].st ELSE "absent"

ConnState(w, h) == IF h = ConnHandle THEN w.nconn ELSE "absent"

\* A native call on a statement handle, recorded.
CallStmt(w, fn, h) ==
    [w EXCEPT !.tr = Append(@, [fn |-> fn, on |-> "stmt", h |-> h, st |-> StmtState(w, h)])]

\* A native call on a connection handle, recorded.
CallConn(w, fn, h) ==
    [w EXCEPT !.tr = Append(@, [fn |-> fn, on |-> "conn", h |-> h, st |-> ConnState(w, h)])]

\* A native entry point that takes no handle (the factory of the Root).
CallRoot(w, fn) ==
    [w EXCEPT !.tr = Append(@, [fn |-> fn, on |-> "root", h |-> PyNone, st |-> "absent"])]

----------------------------------------------------------------------------
(* Root: __init__, the connection factory, __del__ *)

\* The context ads_init_ex hands out.
Context == 1

\* The Root before __init__ ran: no library is loaded.  new_connection and
\* fini are what api.ads_new_connection and api.ads_fini are bound to, at
\* first the library's own entry points; tr is the native calls made so far.
NoRoot ==
    [ phase |-> "none", exc |-> NoExc, lib |-> [ex |-> FALSE, legacy |-> FALSE],
      context |-> NullPtr, new_connection |-> "ads_new_connection", fini |-> "ads_fini",
      tr |-> <<>> ]

\* A native call of the Root, recorded: the context it was given, what it
\* returned, and the version it wrote.
RootCall(r, fn, ctx, res, ver) ==
    [r EXCEPT !.tr = Append(@, [fn |-> fn, context |-> ctx, res |-> res, ver |-> ver])]

\* self.api = load_library(...): lib tells which entry points the library
\* exports, the extended ones (ads_*_ex) and the legacy ones.
Loaded(r, lib) == [r EXCEPT !.lib = lib]

\* The try block of Root.__init__: e is what ads_init_ex answers, the
\* context it returns and the version it writes.
Root_try(r, e) ==
    IF ~r.lib.ex THEN [r EXCEPT !.exc = "AttributeError"]
    ELSE IF e.context = NullPtr \/ e.ver # API_VERSION_EX
         THEN [RootCall(r, "ads_init_ex", PyNone, e.context, e.ver) EXCEPT
                  !.exc = "InterfaceError"]
    ELSE [RootCall(r, "ads_init_ex", PyNone, e.context, e.ver) EXCEPT
             !.context = e.context,
             !.new_connection = "ads_new_connection_ex",
             !.fini = "ads_fini_ex"]

\* The except clause of Root.__init__, entered with whatever the try block
\* raised: l is what ads_init answers, its result and the version it writes.
Root_except(r, l) ==
    IF r.exc = NoExc THEN r
    ELSE IF ~r.lib.legacy THEN [r EXCEPT !.exc = "AttributeError"]
    ELSE IF ~l.ret \/ l.ver # API_VERSION
         THEN [RootCall(r, "ads_init", PyNone, IF l.ret THEN 1 ELSE 0, l.ver) EXCEPT
                  !.exc = "InterfaceError"]
    ELSE [RootCall(r, "ads_init", PyNone, 1, l.ver) EXCEPT !.exc = NoExc]

\* The object after __init__ returned or raised.
Constructed(r) == [r EXCEPT !.phase = IF r.exc = NoExc THEN "ready" ELSE "failed"]

\* Root.__init__
Root_init(r, lib, e, l) == Constructed(Root_except(Root_try(Loaded(r, lib), e), l))

\* self.api.ads_new_connection(), as Connection.__init__ calls it: ok tells
\* whether the native layer returns a handle.
Root_new_connection(r, ok) ==
    RootCall(r, r.new_connection,
             IF r.new_connection = "ads_new_connection_ex" THEN r.context ELSE PyNone,
             IF ok THEN ConnHandle ELSE NullPtr, PyNone)

\* Root.__del__ with the library's own ads_fini called whatever __init__
\* bound.
RootDelLegacy(r) ==
    [RootCall(r, "ads_fini", PyNone, PyNone, PyNone) EXCEPT !.phase = "deleted"]

\* Root.__del__: self.api is a loaded library, which is true; ads_fini is
\* the closure over ads_fini_ex or the library's own entry point.
Root_del(r) ==
    IF r.fini = "ads_fini_ex"
    THEN [RootCall(r, "ads_fini_ex", r.context, PyNone, PyNone) EXCEPT !.phase = "deleted"]
    ELSE IF r.lib.legacy
    THEN [RootCall(r, "ads_fini", PyNone, PyNone, PyNone) EXCEPT !.phase = "deleted"]
    ELSE [r EXCEPT !.phase = "deleted", !.exc = "AttributeError"]

----------------------------------------------------------------------------
(* Connection: con, error *)

\* Connection.con
Connection_con(w) ==
    IF ~Truthy(w.c) THEN Raise(w, "InterfaceError") ELSE Return(w, w.c)

\* The native error codes Connection.error classifies as IntegrityError.
IntegrityCodes == {-193, -194, -195, -196}

\* Connection.error: rc is what ads_error returns.  The error object is the
\* return value; the caller raises it.
Connection_error(w, rc) ==
    Then(Connection_con(w), LAMBDA w1 :
        Return(CallConn(w1, "ads_error", w1.ret),
               IF rc \in IntegrityCodes THEN "IntegrityError" ELSE "OperationalError"))

\* raise self.error() / raise self.parent.error()
RaiseError(w, rc) ==
    Then(Connection_error(w, rc), LAMBDA w1 : Raise(w1, w1.ret))

----------------------------------------------------------------------------
(* Cursor: the stmt property, con, free_statement, new_statement, close *)

\* The stmt property without its guards: whatever the field holds is returned.
stmt_get_unguarded(w, i, rc) == Return(w, w.cur[i].stmt)

\* Cursor.__stmt_get: the getter of the stmt property
stmt_get(w, i, rc) ==
    IF w.cur[i].stmt = PyNone THEN Raise(w, "InterfaceError")
    ELSE IF w.cur[i].stmt = NullPtr
         THEN IF ~w.cur[i].parent THEN Raise(w, "AttributeError")
              ELSE RaiseError(w, rc)
    ELSE Return(w, w.cur[i].stmt)

\* Cursor.get_stmt
get_stmt(w, i, rc) == stmt_get(w, i, rc)

\* Cursor.con
Cursor_con(w, i) ==
    IF ~w.cur[i].parent THEN Raise(w, "InterfaceError") ELSE Connection_con(w)

\* the native ads_free_stmt: a freed handle keeps nothing of its statement
ads_free_stmt(w, h) ==
    IF h \in StmtHandles
    THEN [CallStmt(w, "ads_free_stmt", h) EXCEPT !.nstmt[h] = [NoStmt EXCEPT !.st = "freed"]]
    ELSE CallStmt(w, "ads_free_stmt", h)

\* free_statement without self.stmt = None: the freed handle is kept.
ResetKeepsHandle(w, i) ==
    [w EXCEPT !.cur[i].description = NoDescription,
              !.cur[i].converter = NoConverter,
              !.cur[i].rowcount = -1]

\* The assignments of Cursor.free_statement after the native call.
ResetStatement(w, i) ==
    [w EXCEPT !.cur[i].stmt = PyNone,
              !.cur[i].description = NoDescription,
              !.cur[i].converter = NoConverter,
              !.cur[i].rowcount = -1]

\* free_statement that frees the handle and forgets it, and leaves
\* description, converter and rowcount as they were.
FreeKeepsDescription(w, i) ==
    IF Truthy(w.cur[i].stmt)
    THEN [ads_free_stmt(w, w.cur[i].stmt) EXCEPT !.cur[i].stmt = PyNone]
    ELSE w

\* Cursor.free_statement
free_statement(w, i) ==
    IF Truthy(w.cur[i].stmt)
    THEN ResetStatement(ads_free_stmt(w, w.cur[i].stmt), i)
    ELSE w

\* the native ads_prepare: ok tells whether it returns a statement handle,
\* sd is the statement the operation text denotes (its parameters and columns)
ads_prepare(w, h, ok, sd) ==
    IF ok
    THEN Return([CallConn(w, "ads_prepare", h) EXCEPT
                    !.nstmt[w.nextStmt] = [NoStmt EXCEPT !.st = "live", !.params = sd.params,
                                                         !.cols = sd.cols],
                    !.nextStmt = @ + 1], w.nextStmt)
    ELSE Return(CallConn(w, "ads_prepare", h), NullPtr)

\* Cursor.__stmt_set, of the value just returned
stmt_set(w, i) == [w EXCEPT !.cur[i].stmt = w.ret]

\* Cursor.new_statement
new_statement(w, i, ok, sd) ==
    Then(Cursor_con(free_statement(w, i), i), LAMBDA w2 :
        stmt_set(ads_prepare(w2, w2.ret, ok, sd), i))

\* self.parent = None
Detach(w, i) == [w EXCEPT !.cur[i].parent = FALSE]

\* p.cursors.remove(self)
CursorsRemove(w, i) ==
    IF w.cursorsNone THEN Raise(w, "AttributeError")
    ELSE IF i \notin w.cursors THEN Raise(w, "KeyError")
    ELSE [w EXCEPT !.cursors = @ \ {i}]

\* Cursor.close without its call of free_statement: the cursor is detached
\* and forgotten, its statement stays.
CloseKeepsStatement(w, i, remove) ==
    IF w.cur[i].parent
    THEN IF remove THEN CursorsRemove(Detach(w, i), i) ELSE Detach(w, i)
    ELSE w

\* Cursor.close
Cursor_close(w, i, remove) ==
    IF w.cur[i].parent
    THEN IF remove
         THEN Then(CursorsRemove(Detach(w, i), i), LAMBDA w1 : free_statement(w1, i))
         ELSE free_statement(Detach(w, i), i)
    ELSE w

----------------------------------------------------------------------------
(* Connection: __init__, __del__, close, cursor, transactions, scoped block *)

\* the native ads_free_connection
ads_free_connection(w, h) ==
    IF h = ConnHandle
    THEN [CallConn(w, "ads_free_connection", h) EXCEPT !.nconn = "freed"]
    ELSE CallConn(w, "ads_free_connection", h)

\* the native ads_disconnect
ads_disconnect(w, h) ==
    IF h = ConnHandle /\ w.nconn = "connected"
    THEN [CallConn(w, "ads_disconnect", h) EXCEPT !.nconn = "disconnected"]
    ELSE CallConn(w, "ads_disconnect", h)

\* the native ads_new_connection: ok tells whether it returns a handle
ads_new_connection(w, ok) ==
    IF ok THEN Return([CallRoot(w, "ads_new_connection") EXCEPT !.nconn = "allocated"], ConnHandle)
    ELSE Return(CallRoot(w, "ads_new_connection"), NullPtr)

\* the native ads_connect: ok is its result
ads_connect(w, h, ok) ==
    IF ok /\ h = ConnHandle
    THEN Return([CallConn(w, "ads_connect", h) EXCEPT !.nconn = "connected"], ok)
    ELSE Return(CallConn(w, "ads_connect", h), ok)

\* The failure branch without self.c = None: the freed handle is kept.
ConnectFailedKeepsHandle(w, rc) ==
    Then(Connection_error(w, rc), LAMBDA w1 : Raise(ads_free_connection(w1, w1.c), w1.ret))

\* The failure branch of Connection.__init__: the error is fetched, the
\* handle freed and forgotten, the error raised.
ConnectFailed(w, rc) ==
    Then(Connection_error(w, rc), LAMBDA w1 :
        Raise([ads_free_connection(w1, w1.c) EXCEPT !.c = PyNone], w1.ret))

\* self.c = <the value just returned>
c_set(w) == [w EXCEPT !.c = w.ret]

\* Connection.__init__: newOk tells whether ads_new_connection returns a
\* handle, connOk whether ads_connect succeeds, rc what ads_error returns.
Connection_init(w, newOk, connOk, rc) ==
    Then(c_set(ads_new_connection([w EXCEPT !.cursors = {}, !.cursorsNone = FALSE], newOk)),
         LAMBDA w1 :
            IF ~Truthy(w1.c) THEN RaiseError(w1, rc)
            ELSE Then(ads_connect(w1, w1.c, connOk), LAMBDA w2 :
                    IF ~w2.ret THEN ConnectFailed(w2, rc) ELSE Return(w2, <<>>)))

\* The orders in which a for loop may visit the elements of set S.
Orders(S) ==
    { o \in [1..Cardinality(S) -> S] : \A a, b \in 1..Cardinality(S) : a # b => o[a] # o[b] }

\* for x in self.cursors: x.close(remove=...)
\* A set that changed size since the loop began makes the iterator raise.
RECURSIVE CloseLoop(_, _, _, _)
CloseLoop(w, order, size, remove) ==
    IF Cardinality(w.cursors) # size THEN Raise(w, "RuntimeError")
    ELSE IF order = <<>> THEN w
    ELSE Then(Cursor_close(w, Head(order), remove), LAMBDA w1 :
            CloseLoop(w1, Tail(order), size, remove))

\* The default of the remove parameter of Cursor.close.
CloseRemoveDefault == TRUE

\* The remove argument Connection.close passes to Cursor.close.
CloseRemoveArg == FALSE

\* The for loop of Connection.close
CloseCursors(w, order) ==
    IF w.cursorsNone THEN Raise(w, "TypeError")
    ELSE CloseLoop(w, order, Cardinality(w.cursors), CloseRemoveArg)

\* self.cursors = None
ForgetCursors(w) == [w EXCEPT !.cursors = {}, !.cursorsNone = TRUE]

\* Connection.close: order is the order the set iterator yields the cursors in.
Connection_close(w, order) ==
    Then(Connection_con(w), LAMBDA w1 :
        Then(CloseCursors([w1 EXCEPT !.c = PyNone], order), LAMBDA w3 :
            ReturnNone(ads_free_connection(ads_disconnect(ForgetCursors(w3), w1.ret), w1.ret))))

\* Connection.__del__
Connection_del(w, order) ==
    IF Truthy(w.c) THEN Connection_close(w, order) ELSE w

\* The cursor object a call of Connection.cursor creates.
NewCursorId(w) == CHOOSE i \in CursorIds : ~w.cur[i].exists /\ \A j \in 1..(i-1) : w.cur[j].exists

\* self.cursors.add(x), of the new Cursor(self) x
CursorsAdd(w, i) ==
    Return([w EXCEPT !.cur[i] = Cursor_init(TRUE), !.cursors = @ \cup {i}], <<i>>)

\* Connection.cursor
Connection_cursor(w) ==
    IF w.cursorsNone THEN Raise(w, "AttributeError") ELSE CursorsAdd(w, NewCursorId(w))

\* Connection.begin_transaction, commit, rollback, clear_error:
\* self.api.<fn>(self.con())
PassThrough(w, fn) ==
    Then(Connection_con(w), LAMBDA w1 : Return(CallConn(w1, fn, w1.ret), <<>>))

Connection_begin_transaction(w) == PassThrough(w, "AdsBeginTransaction")

Connection_commit(w) == PassThrough(w, "ads_commit")

Connection_rollback(w) == PassThrough(w, "ads_rollback")

Connection_clear_error(w) == PassThrough(w, "ads_clear_error")

\* Connection.cancel: supported tells whether the library exports ads_cancel.
Connection_cancel(w, supported) ==
    IF ~supported THEN Raise(w, "InterfaceError") ELSE PassThrough(w, "ads_cancel")

\* Connection.__enter__
Connection_enter(w) == Connection_cursor(w)

\* __exit__ without the test of exc: the block always commits.
ExitCommits(w, error) == Connection_commit(w)

\* Connection.__exit__: error tells whether the block raised.
Connection_exit(w, error) ==
    IF error THEN Connection_rollback(w) ELSE Connection_commit(w)

----------------------------------------------------------------------------
(* Value codec: format, mk_assign.assign, mk_valueof.valueof *)

\* A host value is [kind, n]: kind "int" or "float" with value n, "str" or
\* "binary" (a str subclass) of n characters, or "none" (None).
NoneValue == [kind |-> "none", n |-> 0]

\* format = 'xxxdqQiIhHbBxxxx', indexed by the type tag
FormatString == <<"x", "x", "x", "d", "q", "Q", "i", "I", "h", "H", "b", "B", "x", "x", "x", "x">>

\* format[tag]: "IndexError" stands for the index out of range.  A negative
\* index counts from the end of the string.
Format(tag) ==
    IF tag >= 0 /\ tag < Len(FormatString) THEN FormatString[tag + 1]
    ELSE IF tag < 0 /\ -tag <= Len(FormatString) THEN FormatString[Len(FormatString) + tag + 1]
    ELSE "IndexError"

\* struct.calcsize of one format character
Calcsize(fmt) ==
    CASE fmt \in {"d", "q", "Q"} -> 8
      [] fmt \in {"i", "I"} -> 4
      [] fmt \in {"h", "H"} -> 2
      [] OTHER -> 1

\* Whether struct.pack(fmt, value) accepts the value.  The integers of the
\* model all lie within the signed 32-bit range, so a 32- or 64-bit format
\* rejects an integer only for its sign.
Packs(fmt, value) ==
    CASE fmt = "d" -> value.kind \in {"int", "float"}
      [] fmt \in {"q", "i"} -> value.kind = "int"
      [] fmt \in {"Q", "I"} -> value.kind = "int" /\ value.n >= 0
      [] fmt = "h" -> value.kind = "int" /\ value.n >= -(2^15) /\ value.n < 2^15
      [] fmt = "H" -> value.kind = "int" /\ value.n >= 0 /\ value.n < 2^16
      [] fmt = "b" -> value.kind = "int" /\ value.n >= -(2^7) /\ value.n < 2^7
      [] fmt = "B" -> value.kind = "int" /\ value.n >= 0 /\ value.n < 2^8
      [] OTHER -> FALSE

\* The type tag assign infers for a parameter described as A_INVALID_TYPE.
InferType(value) ==
    CASE value.kind = "int" -> A_VAL32
      [] value.kind = "float" -> A_DOUBLE
      [] value.kind = "binary" -> A_BINARY
      [] OTHER -> A_STRING

\* mk_assign.assign: param is the BindParam the native describe call filled,
\* [direction, type, buffer_size].  The result is the exception raised and
\* the parameter as submitted to the native bind.
assign(param, value) ==
    LET is_null == value.kind = "none"
        v       == IF is_null /\ param.direction = DD_INPUT
                   THEN [kind |-> "int", n |-> 0] ELSE value
        type    == IF param.type = A_INVALID_TYPE THEN InferType(v) ELSE param.type
        fmt     == Format(type)
        p1      == [direction |-> param.direction, type |-> type, is_null |-> is_null,
                    buffer_size |-> param.buffer_size, length |-> 0, value |-> v]
    IN IF fmt = "IndexError" THEN [exc |-> "IndexError", param |-> p1]
       ELSE IF fmt = "x"
       \* the value is a str by now, and create_string_buffer takes bytes
       THEN [exc |-> "TypeError", param |-> p1]
       ELSE IF ~Packs(fmt, v) THEN [exc |-> "struct.error", param |-> p1]
       ELSE [exc |-> NoExc,
             param |-> [p1 EXCEPT !.buffer_size = Calcsize(fmt), !.length = Calcsize(fmt),
                                  !.value = [kind |-> IF fmt = "d" THEN "float" ELSE "int",
                                             n |-> v.n]]]

\* mk_valueof.valueof, of the value of a bound parameter after execution
valueof(data) ==
    IF data.is_null THEN [exc |-> NoExc, val |-> NoneValue]
    ELSE IF data.type \in {A_BINARY, A_STRING}
         THEN [exc |-> NoExc, val |-> [kind |-> "bytes", n |-> data.length]]
    ELSE IF data.type = A_NCHAR
         THEN [exc |-> NoExc, val |-> [kind |-> "str", n |-> data.length \div 2]]
    ELSE IF data.type = A_DECIMAL
         \* Decimal() takes no bytes
         THEN [exc |-> "TypeError", val |-> NoneValue]
    ELSE IF data.type \in {A_DATE, A_TIME}
         \* an empty string gives None; otherwise the isinstance test against
         \* datetime.date / datetime.time (methods of the imported class) raises
         THEN IF data.length = 0 THEN [exc |-> NoExc, val |-> NoneValue]
              ELSE [exc |-> "TypeError", val |-> NoneValue]
    ELSE IF data.type = A_TIMESTAMP
         THEN [exc |-> NoExc, val |-> [kind |-> "bytes", n |-> data.length]]
    ELSE IF Format(data.type) \in {"IndexError", "x"}
         \* unpack('x', ...) yields the empty tuple, whose [0] is out of range
         THEN [exc |-> "IndexError", val |-> NoneValue]
    ELSE [exc |-> NoExc, val |-> data.value]

----------------------------------------------------------------------------
(* Cursor: columns, executemany, execute *)

\* self.api.<fn>(self.stmt, ...): read the stmt property, then call
StmtCall(w, i, fn, rc) ==
    Then(stmt_get(w, i, rc), LAMBDA w1 : CallStmt(w1, fn, w1.ret))

\* ToPyType: the category of a native column type, "KeyError" when absent
ToPyType(t) ==
    CASE t = DT_DATE -> "DATE"
      [] t = DT_TIME -> "TIME"
      [] t = DT_TIMESTAMP -> "TIMESTAMP"
      [] t \in {DT_VARCHAR, DT_FIXCHAR, DT_LONGVARCHAR, DT_STRING, DT_LONGNVARCHAR,
                DT_NSTRING, DT_NFIXCHAR, DT_NVARCHAR} -> "STRING"
      [] t \in {DT_DOUBLE, DT_FLOAT, DT_DECIMAL, DT_INT, DT_SMALLINT, DT_TINYINT,
                DT_BIGINT, DT_UNSINT, DT_UNSSMALLINT, DT_UNSBIGINT, DT_BIT} -> "NUMBER"
      [] t \in {DT_BINARY, DT_LONGBINARY} -> "BINARY"
      [] OTHER -> "KeyError"

\* The native types whose sizes columns() converts from bytes to chars.
WideTypes == {DT_NSTRING, DT_NFIXCHAR, DT_NVARCHAR, DT_LONGNVARCHAR}

\* The body of the loop of Cursor.columns for one ColumnInfo: the exception
\* raised, or the descriptor yielded.  info.precision / 2 is a float, which
\* the c_short and c_int fields of ColumnInfo do not take.
column(info) ==
    IF info.native_type \in WideTypes THEN [exc |-> "TypeError", d |-> <<>>]
    ELSE IF ToPyType(info.native_type) = "KeyError" THEN [exc |-> "KeyError", d |-> <<>>]
    ELSE [exc |-> NoExc,
          d |-> [type_code |-> ToPyType(info.native_type), internal_size |-> info.max_size,
                 precision |-> info.precision, native_type |-> info.native_type]]

\* The columns of the statement cursor i holds, as the native layer has them.
NativeCols(w, i) == w.nstmt[w.cur[i].stmt].cols

\* info = ColumnInfo(): the structure before any call filled it
ZeroInfo == [type |-> 0, native_type |-> 0, precision |-> 0, max_size |-> 0, read |-> FALSE]

\* The contents of info after ads_get_column_info was called for columns
\* 1..k of cols: a call that fails leaves the structure as the call before
\* left it, and its result is not looked at.
RECURSIVE InfoAt(_, _)
InfoAt(cols, k) ==
    IF k = 0 THEN ZeroInfo
    ELSE IF cols[k].read THEN cols[k]
    ELSE InfoAt(cols, k - 1)

\* yield, or the exception of the loop body
Yield(w, r, acc) == IF r.exc # NoExc THEN Raise(w, r.exc) ELSE Return(w, Append(acc, r.d))

\* Cursor.columns, consumed to its end: k is the next column index, ret the
\* descriptors yielded so far.
RECURSIVE ColumnsLoop(_, _, _, _)
ColumnsLoop(w, i, rc, k) ==
    IF k > Len(NativeCols(w, i)) THEN w
    ELSE Then(StmtCall(w, i, "ads_get_column_info", rc), LAMBDA w1 :
            Then(Yield(w1, column(InfoAt(NativeCols(w, i), k)), w.ret), LAMBDA w2 :
                ColumnsLoop(w2, i, rc, k + 1)))

columns(w, i, rc) ==
    Then(StmtCall(w, i, "ads_num_cols", rc), LAMBDA w1 :
        ColumnsLoop(Return(w1, <<>>), i, rc, 1))

\* The parameters of the statement cursor i holds, as the native describe
\* call reports them.
NativeParams(w, i) == w.nstmt[w.cur[i].stmt].params

\* (self.assign)(param, col), its result r added to the parameters acc
Assigned(w, r, acc) ==
    IF r.exc # NoExc THEN Raise(w, r.exc) ELSE Return(w, Append(acc, r.param))

\* self.api.ads_bind_param(self.stmt, k, byref(param)): the call is the one
\* just recorded in tr; its index k (from 0) and the parameter it submits
\* are recorded in binds.
ads_bind_param(w, k, param) ==
    [w EXCEPT !.binds = Append(@, [at |-> Len(w.tr), k |-> k, direction |-> param.direction,
                                   type |-> param.type, buffer_size |-> param.buffer_size])]

\* executemany.bind(k, col), for each k up to n: ret collects the parameters.
\* The model counts from 1, enumerate from 0.
RECURSIVE BindLoop(_, _, _, _, _, _)
BindLoop(w, i, rc, values, n, k) ==
    IF k > n THEN w
    ELSE Then(StmtCall(w, i, "ads_describe_bind_param", rc), LAMBDA w1 :
            Then(Assigned(w1, assign(NativeParams(w, i)[k], values[k]), w.ret), LAMBDA w2 :
                Then(StmtCall(w2, i, "ads_bind_param", rc), LAMBDA w3 :
                    BindLoop(Return(ads_bind_param(w3, k - 1, w2.ret[k]), w2.ret),
                             i, rc, values, n, k + 1))))

Min(a, b) == IF a < b THEN a ELSE b

\* Accumulate without the memory of an unknown count: a known count after
\* an unknown one starts the sum again.
AccumulateForgets(rowcount, count) ==
    IF count < 0 THEN -1
    ELSE IF rowcount >= 0 THEN rowcount + count
    ELSE count

\* The row count after one execution that reported count.
Accumulate(rowcount, count) ==
    IF count < 0 THEN -1
    ELSE IF rowcount >= 0 THEN rowcount + count
    ELSE rowcount

\* self.description, types = zip(*self.columns()), of the descriptors in ret
SetDescription(w, i) == [w EXCEPT !.cur[i].description = w.ret]

\* self.converter = self.TypeConverter(types), and the row count
SetConverter(w, i, count) ==
    [w EXCEPT !.cur[i].converter =
                  [k \in 1..Len(w.cur[i].description) |-> w.cur[i].description[k].native_type],
              !.cur[i].rowcount = Accumulate(@, count)]

\* The except ValueError branch, and the row count
NoResultSet(w, i, count) ==
    [w EXCEPT !.cur[i].description = NoDescription,
              !.cur[i].converter = NoConverter,
              !.cur[i].rowcount = Accumulate(@, count)]

\* The steps of one execution after ads_execute succeeded: descriptors,
\* converter and row count.  item.count is what ads_num_rows (with a result
\* set) or ads_affected_rows (without) returns.
AfterExecute(w, i, rc, item) ==
    Then(columns(w, i, rc), LAMBDA w1 :
        IF w1.ret = <<>>
        \* zip(*()) unpacks to nothing: ValueError, caught
        THEN Then(StmtCall(w1, i, "ads_affected_rows", rc), LAMBDA w2 :
                NoResultSet(w2, i, item.count))
        ELSE Then(StmtCall(SetDescription(w1, i), i, "ads_num_rows", rc), LAMBDA w2 :
                SetConverter(w2, i, item.count)))

\* the native ads_execute on the statement of cursor i: a successful
\* execution of a statement with columns opens a result set of item.nrows rows
ads_execute(w, i, item) ==
    IF item.ok
    THEN [w EXCEPT !.nstmt[w.cur[i].stmt].total =
                       IF NativeCols(w, i) = <<>> THEN 0 ELSE item.nrows,
                   !.nstmt[w.cur[i].stmt].pos = 0]
    ELSE w

\* The for loop of executemany over seq_of_parameters, from its first item on.
\* parms holds the parameters bound for the last item.
RECURSIVE ExecLoop(_, _, _, _, _)
ExecLoop(w, i, rc, batch, parms) ==
    IF batch = <<>> THEN Return(w, parms)
    ELSE Then(BindLoop(Return(w, <<>>), i, rc, Head(batch).params,
                       Min(Len(Head(batch).params), Len(NativeParams(w, i))), 1),
              LAMBDA w1 :
                Then(StmtCall(w1, i, "ads_execute", rc), LAMBDA w2 :
                    IF ~Head(batch).ok THEN RaiseError(w2, rc)
                    ELSE Then(AfterExecute(ads_execute(w2, i, Head(batch)), i, rc, Head(batch)),
                              LAMBDA w3 : ExecLoop(w3, i, rc, Tail(batch), w1.ret))))

\* The value of an unbound local variable.
Unbound == <<[unbound |-> TRUE]>>

\* [(self.valueof)(param.value) for param in parms]
RECURSIVE ValuesOf(_, _)
ValuesOf(parms, acc) ==
    IF parms = <<>> THEN [exc |-> NoExc, val |-> acc]
    ELSE IF valueof(Head(parms)).exc # NoExc
         THEN [exc |-> valueof(Head(parms)).exc, val |-> <<>>]
    ELSE ValuesOf(Tail(parms), Append(acc, valueof(Head(parms)).val))

\* self.rowcount = 0
ZeroRowcount(w, i) == [w EXCEPT !.cur[i].rowcount = 0]

\* The try block of executemany.
ExecTry(w, i, ok, sd, batch, rc) ==
    Then(new_statement(w, i, ok, sd), LAMBDA w1 :
        Then(StmtCall(w1, i, "ads_num_params", rc), LAMBDA w2 :
            ExecLoop(ZeroRowcount(w2, i), i, rc, batch, Unbound)))

\* return r, or raise what r raised
Result(w, r) == IF r.exc # NoExc THEN Raise(w, r.exc) ELSE Return(w, r.val)

\* The end of executemany without the except clause: the row count stays
\* as the executions that ran left it.
ExecEndKeepsCount(w, i) ==
    IF w.exc # NoExc THEN w
    ELSE IF w.ret = Unbound THEN Raise(w, "UnboundLocalError")
    ELSE Result(w, ValuesOf(w.ret, <<>>))

\* The except clause and the return statement of executemany, after the
\* try block ended in world w.
ExecEnd(w, i) ==
    IF w.exc # NoExc THEN [w EXCEPT !.cur[i].rowcount = -1]
    ELSE IF w.ret = Unbound THEN Raise(w, "UnboundLocalError")
    ELSE Result(w, ValuesOf(w.ret, <<>>))

\* Cursor.executemany: ok and sd are the outcome of ads_prepare, batch is
\* seq_of_parameters with what the native layer answers to each execution,
\* rc what ads_error returns.
executemany(w, i, ok, sd, batch, rc) == ExecEnd(ExecTry(w, i, ok, sd, batch, rc), i)

\* Cursor.execute
execute(w, i, ok, sd, item, rc) ==
    Then(executemany(w, i, ok, sd, <<item>>, rc), LAMBDA w1 : ReturnNone(w1))

----------------------------------------------------------------------------
(* Cursor: values, rows, fetchmany, fetchone, fetchall *)

\* The DataValue ads_get_column fills for column info of row r.
NativeValue(info, r) ==
    [type |-> info.type, is_null |-> FALSE, length |-> info.max_size,
     value |-> [kind |-> "int", n |-> r]]

\* yield (self.valueof)(value)
YieldValue(w, r, acc) == IF r.exc # NoExc THEN Raise(w, r.exc) ELSE Return(w, Append(acc, r.val))

\* The row the native cursor of the statement of cursor i stands on.
NativePos(w, i) == w.nstmt[w.cur[i].stmt].pos

\* Cursor.values, consumed to its end: ret is the list of decoded values
RECURSIVE ValuesLoop(_, _, _, _)
ValuesLoop(w, i, rc, k) ==
    IF k > Len(NativeCols(w, i)) THEN w
    ELSE Then(StmtCall(w, i, "ads_get_column", rc), LAMBDA w1 :
            Then(YieldValue(w1, valueof(NativeValue(NativeCols(w, i)[k], NativePos(w, i))), w.ret),
                 LAMBDA w2 : ValuesLoop(w2, i, rc, k + 1)))

values(w, i, rc) ==
    Then(StmtCall(w, i, "ads_num_cols", rc), LAMBDA w1 :
        ValuesLoop(Return(w1, <<>>), i, rc, 1))

\* the native ads_fetch_next on the statement of cursor i: ret tells whether
\* the cursor moved to a next row
ads_fetch_next(w, i) ==
    IF NativePos(w, i) < w.nstmt[w.cur[i].stmt].total
    THEN Return([w EXCEPT !.nstmt[w.cur[i].stmt].pos = @ + 1], TRUE)
    ELSE Return(w, FALSE)

\* The while loop of Cursor.rows, resumed until the consumer has taken
\* want rows (any number of rows when want is negative): acc is the rows
\* yielded so far, ret the rows at the end.
RECURSIVE RowsLoop(_, _, _, _, _)
RowsLoop(w, i, rc, want, acc) ==
    IF want = 0 THEN Return(w, acc)
    ELSE Then(StmtCall(w, i, "ads_fetch_next", rc), LAMBDA w1 :
            Then(ads_fetch_next(w1, i), LAMBDA w2 :
                IF ~w2.ret THEN Return(w2, acc)
                ELSE Then(values(w2, i, rc), LAMBDA w3 :
                        RowsLoop(w3, i, rc, want - 1, Append(acc, w3.ret)))))

\* Cursor.rows, started and consumed by a consumer that takes want rows
rows(w, i, rc, want) ==
    IF w.cur[i].description = NoDescription THEN Raise(w, "InterfaceError")
    ELSE RowsLoop(w, i, rc, want, <<>>)

\* The size fetchmany uses: the argument, or arraysize when it is left out.
FetchSize(w, i, size, sizeNone) == IF sizeNone THEN w.cur[i].arraysize ELSE size

\* fetchmany with the arguments of zip exchanged: rows() is asked before
\* range(size), so one row more is taken from the native cursor than is
\* returned.
FetchManyRowsFirst(w, i, rc, size, sizeNone) ==
    Then(rows(w, i, rc, FetchSize(w, i, size, sizeNone) + 1), LAMBDA w1 :
        Return(w1, SubSeq(w1.ret, 1, Min(Len(w1.ret), FetchSize(w, i, size, sizeNone)))))

\* Cursor.fetchmany: size is the argument, sizeNone tells it was left out.
\* zip asks range(size) first, so rows() is not started for a size below 1.
fetchmany(w, i, rc, size, sizeNone) ==
    IF FetchSize(w, i, size, sizeNone) <= 0 THEN Return(w, <<>>)
    ELSE rows(w, i, rc, FetchSize(w, i, size, sizeNone))

\* Cursor.fetchone
fetchone(w, i, rc) ==
    Then(fetchmany(w, i, rc, 1, FALSE), LAMBDA w1 :
        IF w1.ret # <<>> THEN Return(w1, w1.ret[1]) ELSE ReturnNone(w1))

\* Cursor.fetchall
fetchall(w, i, rc) == rows(w, i, rc, -1)

----------------------------------------------------------------------------
(* What the native library and the caller supply *)

\* Values ads_error returns: a constraint-violation code and another.
ErrCodes == {-193, -1}

\* A parameter the native describe call leaves untyped, for input.
UntypedParam == [direction |-> DD_INPUT, type |-> A_INVALID_TYPE, buffer_size |-> 0]

\* An integer column and a wide-character column, as ads_get_column_info
\* reports them.
\* read tells whether ads_get_column_info succeeds for the column.
IntCol ==
    [type |-> A_VAL32, native_type |-> DT_INT, precision |-> 10, max_size |-> 4, read |-> TRUE]

WideCol ==
    [type |-> A_NCHAR, native_type |-> DT_NVARCHAR, precision |-> 20, max_size |-> 40,
     read |-> TRUE]

\* A column whose metadata the native layer fails to read.
BadCol == [IntCol EXCEPT !.read = FALSE]

\* Statements: an update without parameters, a query with one parameter, a
\* query over a wide-character column.
Update == [params |-> <<>>, cols |-> <<>>]

Query == [params |-> <<UntypedParam>>, cols |-> <<IntCol>>]

WideQuery == [params |-> <<>>, cols |-> <<WideCol>>]

IntValue == [kind |-> "int", n |-> 7]

StrValue == [kind |-> "str", n |-> 3]

\* One element of seq_of_parameters with the native answers to its
\* execution: ok is the result of ads_execute, count the reported row count,
\* nrows the number of rows of the result set.
Item(p, ok, count, nrows) == [params |-> p, ok |-> ok, count |-> count, nrows |-> nrows]

\* A failed execution reports nothing.
Failed(p) == Item(p, FALSE, 0, 0)

\* What one execute meets in the life-cycle specification: the outcome of
\* prepare, the statement, and one element.  Prepare fails; an update runs;
\* a query runs with MaxRows rows, or fails.
LifeInputs ==
    { [ok |-> FALSE, sd |-> Update, item |-> Failed(<<>>)],
      [ok |-> TRUE, sd |-> Update, item |-> Item(<<>>, TRUE, 1, 0)],
      [ok |-> TRUE, sd |-> Query, item |-> Item(<<IntValue>>, TRUE, MaxRows, MaxRows)],
      [ok |-> TRUE, sd |-> Query, item |-> Failed(<<IntValue>>)] }

\* The row counts one execution reports in the batch specification: unknown
\* and some.
BatchCounts == {-1, 1, 2, 3}

\* The rows of a result set whose number is reported as n.
RowsOf(n) == IF n < 0 THEN MaxRows ELSE Min(n, MaxRows)

\* The elements of a batch over statement sd: each runs and reports a count.
BatchItems(sd) ==
    { Item(IF sd.params = <<>> THEN <<>> ELSE <<IntValue>>, TRUE, n,
           IF sd.cols = <<>> THEN 0 ELSE RowsOf(n)) : n \in BatchCounts }

\* The sequences of at most n elements of S.
SeqsUpTo(S, n) == UNION { [1..k -> S] : k \in 0..n }

\* The batches whose executions all run: at most MaxBatch elements, over an
\* update or a query.
CountBatches ==
    { [ok |-> TRUE, sd |-> sd, batch |-> b] :
          sd \in {Update}, b \in SeqsUpTo(BatchItems(Update), MaxBatch) }
    \cup { [ok |-> TRUE, sd |-> sd, batch |-> b] :
          sd \in {Query}, b \in SeqsUpTo(BatchItems(Query), MaxBatch) }

\* Batches that end in an exception: a failed execution after one that ran,
\* a str parameter, a wide-character column.
FailingBatches ==
    { [ok |-> TRUE, sd |-> Query,
       batch |-> <<Item(<<IntValue>>, TRUE, MaxRows, MaxRows), Failed(<<IntValue>>)>>],
      [ok |-> TRUE, sd |-> Query, batch |-> <<Item(<<StrValue>>, TRUE, 0, 0)>>],
      [ok |-> TRUE, sd |-> WideQuery, batch |-> <<Item(<<>>, TRUE, 0, 0)>>] }

\* The elements of a batch over statement sd whose execution fails.
FailedItem(sd) == Failed(IF sd.params = <<>> THEN <<>> ELSE <<IntValue>>)

\* Batches in which one execution fails: after executions that ran, and
\* before one more element or none.
ExecFailBatches ==
    UNION { { [ok |-> TRUE, sd |-> sd, batch |-> pre \o <<FailedItem(sd)>> \o post] :
                pre \in SeqsUpTo(BatchItems(sd), MaxBatch - 2),
                post \in {<<>>, <<CHOOSE it \in BatchItems(sd) : it.count = 1>>} } :
            sd \in {Update, Query} }

\* A statement with MaxParams parameters and no result set.
Insert == [params |-> [k \in 1..MaxParams |-> UntypedParam], cols |-> <<>>]

\* n int values
IntParams(n) == [k \in 1..n |-> IntValue]

\* The parameter sets given to Insert: fewer values than it has parameters,
\* as many, and one more; all int, or with a str as the last.
ParamSets ==
    { IntParams(n) : n \in 0..(MaxParams + 1) }
    \cup { [IntParams(n) EXCEPT ![n] = StrValue] : n \in 1..(MaxParams + 1) }

\* Batches of one or two parameter sets, each of whose executions runs.
ParamBatches ==
    { [ok |-> TRUE, sd |-> Insert, batch |-> b] :
          b \in SeqsUpTo({ Item(p, TRUE, 1, 0) : p \in ParamSets }, 2) \ {<<>>} }

\* A query over a wide-character column and an integer column.
MixedQuery == [params |-> <<>>, cols |-> <<WideCol, IntCol>>]

\* One execution of a query over an integer column, over a wide-character
\* column, and over both.
DescribeBatches ==
    { [ok |-> TRUE, sd |-> sd, batch |-> <<Item(<<>>, TRUE, 1, 1)>>] :
          sd \in {[params |-> <<>>, cols |-> <<IntCol>>], WideQuery, MixedQuery} }

\* One execution of a query for one of whose columns ads_get_column_info
\* fails: the first column, or the one after an integer column.
BadInfoBatches ==
    { [ok |-> TRUE, sd |-> [params |-> <<>>, cols |-> cols], batch |-> <<Item(<<>>, TRUE, 1, 1)>>] :
          cols \in {<<BadCol>>, <<IntCol, BadCol>>} }

\* The buffer size ads_describe_bind_param reports for a parameter the
\* statement writes to.
ReportedSize == 8

\* Parameters the statement writes to, as the native describe call reports
\* them: a 32-bit integer and a string, for output or for both ways.
OutParams ==
    { [direction |-> d, type |-> t, buffer_size |-> ReportedSize] :
          d \in {DD_OUTPUT, DD_INPUT_OUTPUT}, t \in {A_VAL32, A_STRING} }

\* One execution of a procedure call with one such parameter, given an int.
OutBatches ==
    { [ok |-> TRUE, sd |-> [params |-> <<p>>, cols |-> <<>>],
       batch |-> <<Item(<<IntValue>>, TRUE, 1, 0)>>] : p \in OutParams }

BatchInputs ==
    CountBatches \cup FailingBatches \cup ExecFailBatches \cup ParamBatches \cup OutBatches
    \cup DescribeBatches \cup BadInfoBatches

\* What the library exports, and what ads_init_ex and ads_init answer.
Libs == [ex : BOOLEAN, legacy : BOOLEAN]

ExAnswers == [context : {NullPtr, Context}, ver : {API_VERSION, API_VERSION_EX}]

LegacyAnswers == [ret : BOOLEAN, ver : {API_VERSION, API_VERSION_EX}]

\* Root("PYTHON"), the default parent of every Connection, built when the
\* module is loaded, on a library whose extended protocol succeeds.
ReadyRoot ==
    Root_init(NoRoot, [ex |-> TRUE, legacy |-> TRUE],
              [context |-> Context, ver |-> API_VERSION_EX],
              [ret |-> TRUE, ver |-> API_VERSION])

----------------------------------------------------------------------------
(* The state machine *)

\* The world before connect() is called.
NoWorld ==
    [ c |-> PyNone, cursors |-> {}, cursorsNone |-> FALSE,
      cur |-> [i \in CursorIds |-> NoCursor],
      nconn |-> "unalloc", nstmt |-> [h \in StmtHandles |-> NoStmt], nextStmt |-> 1,
      tr |-> <<>>, binds |-> <<>>, exc |-> NoExc, ret |-> <<>>, none |-> FALSE ]

\* The objects and handles are as in world w.
Installed(w) ==
    /\ c = w.c
    /\ cursors = w.cursors
    /\ cursorsNone = w.cursorsNone
    /\ cur = w.cur
    /\ nconn = w.nconn
    /\ nstmt = w.nstmt
    /\ nextStmt = w.nextStmt

Init ==
    /\ phase = "none"
    /\ Installed(NoWorld)
    /\ depth = 0
    /\ callbacks = {}
    /\ root = ReadyRoot

\* The state after a method call that ended in world w.  No method of
\* Connection or Cursor assigns to CONVERSION_CALLBACKS or to the Root.
Install(w) ==
    /\ UNCHANGED <<callbacks, root>>
    /\ c' = w.c
    /\ cursors' = w.cursors
    /\ cursorsNone' = w.cursorsNone
    /\ cur' = w.cur
    /\ nconn' = w.nconn
    /\ nstmt' = w.nstmt
    /\ nextStmt' = w.nextStmt

\* The worlds a call of each method can end in, over what the native library
\* and the caller supply.

ConnectOutcomes ==
    { Connection_init(World, newOk, connOk, rc) :
          newOk \in BOOLEAN, connOk \in BOOLEAN, rc \in ErrCodes }

ConnectionDelOutcomes == { Connection_del(World, order) : order \in Orders(cursors) }

ConnectionCloseOutcomes == { Connection_close(World, order) : order \in Orders(cursors) }

ErrorOutcomes == { Connection_error(World, rc) : rc \in ErrCodes }

CancelOutcomes == { Connection_cancel(World, supported) : supported \in BOOLEAN }

GetStmtOutcomes(i) == { get_stmt(World, i, rc) : rc \in ErrCodes }

ColumnsOutcomes(i) == { columns(World, i, rc) : rc \in ErrCodes }

ValuesOutcomes(i) == { values(World, i, rc) : rc \in ErrCodes }

ExecuteOutcomes(i) ==
    { execute(World, i, in.ok, in.sd, in.item, rc) : in \in LifeInputs, rc \in ErrCodes }

\* ads_error is not asked when every execution of the batch runs.
ExecuteManyOutcomes(i) ==
    { executemany(World, i, in.ok, in.sd, in.batch, rc) :
          in \in FailingBatches \cup ExecFailBatches, rc \in ErrCodes }
    \cup { executemany(World, i, in.ok, in.sd, in.batch, 0) :
              in \in CountBatches \cup ParamBatches \cup OutBatches
                      \cup DescribeBatches \cup BadInfoBatches }

FetchOneOutcomes(i) == { fetchone(World, i, rc) : rc \in ErrCodes }

\* fetchmany(size) for every size up to MaxRows, and fetchmany()
FetchManyOutcomes(i) ==
    { fetchmany(World, i, rc, size, FALSE) : rc \in ErrCodes, size \in 0..MaxRows }
    \cup { fetchmany(World, i, rc, 0, TRUE) : rc \in ErrCodes }

FetchAllOutcomes(i) == { fetchall(World, i, rc) : rc \in ErrCodes }

\* connect(...): Connection.__init__
Connect ==
    /\ phase = "none"
    /\ \E w \in ConnectOutcomes :
          /\ Install(w)
          /\ phase' = IF w.exc = NoExc THEN "open" ELSE "failed"
    /\ UNCHANGED depth

\* The Connection object is destroyed: Connection.__del__
ConnectionDel ==
    /\ phase \in {"open", "failed"}
    /\ depth = 0
    /\ \E w \in ConnectionDelOutcomes : Install(w)
    /\ phase' = "deleted"
    /\ UNCHANGED depth

ConnectionClose ==
    /\ phase = "open"
    /\ \E w \in ConnectionCloseOutcomes : Install(w)
    /\ UNCHANGED <<phase, depth>>

HasFreeCursor == \E i \in CursorIds : ~cur[i].exists

\* Connection.cursor can be called: a cursor object can still be created,
\* or the call raises before it tracks one.
CanAskCursor == phase = "open" /\ (cursorsNone \/ HasFreeCursor)

NewCursor ==
    /\ CanAskCursor
    /\ Install(Connection_cursor(World))
    /\ UNCHANGED <<phase, depth>>

Transaction ==
    /\ phase = "open"
    /\ \/ Install(Connection_begin_transaction(World))
       \/ Install(Connection_commit(World))
       \/ Install(Connection_rollback(World))
       \/ Install(Connection_clear_error(World))
       \/ \E w \in CancelOutcomes : Install(w)
       \/ \E w \in ErrorOutcomes : Install(w)
    /\ UNCHANGED <<phase, depth>>

\* with connection as cursor: the block is entered
Enter ==
    /\ CanAskCursor
    /\ depth < MaxDepth
    /\ Install(Connection_enter(World))
    /\ depth' = IF Connection_enter(World).exc = NoExc THEN depth + 1 ELSE depth
    /\ UNCHANGED phase

\* A connection-scoped block is being left.
InBlock == phase = "open" /\ depth > 0

\* the block is left, with or without an unhandled error
Exit ==
    /\ InBlock
    /\ \E error \in BOOLEAN : Install(Connection_exit(World, error))
    /\ depth' = depth - 1
    /\ UNCHANGED phase

\* Cursor i is an object the caller holds.
Usable(i) == phase = "open" /\ cur[i].exists

\* Cursor i can prepare: the model has statement handles left.
CanPrepare(i) == Usable(i) /\ nextStmt <= MaxStmts

GetStmt(i) ==
    /\ Usable(i)
    /\ \E w \in GetStmtOutcomes(i) : Install(w)
    /\ UNCHANGED <<phase, depth>>

Columns(i) ==
    /\ Usable(i)
    /\ \E w \in ColumnsOutcomes(i) : Install(w)
    /\ UNCHANGED <<phase, depth>>

Values(i) ==
    /\ Usable(i)
    /\ \E w \in ValuesOutcomes(i) : Install(w)
    /\ UNCHANGED <<phase, depth>>

FreeStatement(i) ==
    /\ Usable(i)
    /\ Install(free_statement(World, i))
    /\ UNCHANGED <<phase, depth>>

\* Cursor.close(), also run by Cursor.__del__
CursorClose(i) ==
    /\ Usable(i)
    /\ Install(Cursor_close(World, i, TRUE))
    /\ UNCHANGED <<phase, depth>>

Execute(i) ==
    /\ CanPrepare(i)
    /\ \E w \in ExecuteOutcomes(i) : Install(w)
    /\ UNCHANGED <<phase, depth>>

ExecuteMany(i) ==
    /\ CanPrepare(i)
    /\ \E w \in ExecuteManyOutcomes(i) : Install(w)
    /\ UNCHANGED <<phase, depth>>

FetchOne(i) ==
    /\ Usable(i)
    /\ \E w \in FetchOneOutcomes(i) : Install(w)
    /\ UNCHANGED <<phase, depth>>

FetchMany(i) ==
    /\ Usable(i)
    /\ \E w \in FetchManyOutcomes(i) : Install(w)
    /\ UNCHANGED <<phase, depth>>

FetchAll(i) ==
    /\ Usable(i)
    /\ \E w \in FetchAllOutcomes(i) : Install(w)
    /\ UNCHANGED <<phase, depth>>

\* The life cycle of a connection and its cursors.
Next ==
    \/ Connect
    \/ ConnectionDel
    \/ ConnectionClose
    \/ NewCursor
    \/ Transaction
    \/ Enter
    \/ Exit
    \/ \E i \in CursorIds :
          \/ GetStmt(i)
          \/ Columns(i)
          \/ Values(i)
          \/ FreeStatement(i)
          \/ CursorClose(i)
          \/ Execute(i)
          \/ FetchOne(i)
          \/ FetchMany(i)
          \/ FetchAll(i)

Spec == Init /\ [][Next]_vars

\* The world after connect() succeeded and cursor() was called once.
BatchWorld == Connection_cursor(Connection_init(NoWorld, TRUE, TRUE, -1))

\* The cursor of the batch specification.
BatchCursor == BatchWorld.ret[1]

InitBatch ==
    /\ phase = "open"
    /\ Installed(BatchWorld)
    /\ depth = 0
    /\ callbacks = {}
    /\ root = ReadyRoot

\* Batches on one cursor of an open connection, and the reading of their
\* result sets.
NextBatch ==
    \/ ExecuteMany(BatchCursor)
    \/ FetchOne(BatchCursor)
    \/ FreeStatement(BatchCursor)

SpecBatch == InitBatch /\ [][NextBatch]_vars

\* A character column, and a column whose values carry type tag t.
TextCol ==
    [type |-> A_STRING, native_type |-> DT_VARCHAR, precision |-> 10, max_size |-> 3,
     read |-> TRUE]

TaggedCol(t) == [IntCol EXCEPT !.type = t]

\* The type tags mk_valueof has no rule for: A_INVALID_TYPE and the first
\* one past A_TIMESTAMP.
UnknownTags == {A_INVALID_TYPE, A_TIMESTAMP + 1}

\* The queries of the fetch specification: over an integer and a character
\* column, and over a column of each unknown type tag.
FetchQueries ==
    { [params |-> <<>>, cols |-> <<IntCol, TextCol>>] }
    \cup { [params |-> <<>>, cols |-> <<TaggedCol(t)>>] : t \in UnknownTags }

\* execute of such a query, which runs and has 1..MaxRows rows
QueryOutcomes(i) ==
    { execute(World, i, TRUE, sd, Item(<<>>, TRUE, n, n), 0) :
          sd \in FetchQueries, n \in 1..MaxRows }

ExecuteQuery(i) ==
    /\ CanPrepare(i)
    /\ \E w \in QueryOutcomes(i) : Install(w)
    /\ UNCHANGED <<phase, depth>>

\* The native type tags callbacks get registered for.
RegisterTags == {DT_INT, DT_VARCHAR}

\* register_converter(datatype, callback)
Register ==
    /\ \E t \in RegisterTags : callbacks' = callbacks \cup {t}
    /\ UNCHANGED <<phase, c, cursors, cursorsNone, cur, nconn, nstmt, nextStmt, depth, root>>

\* Callbacks are registered, queries executed and their rows fetched, on one
\* cursor of an open connection.
NextFetch ==
    \/ Register
    \/ ExecuteQuery(BatchCursor)
    \/ FetchOne(BatchCursor)
    \/ FetchMany(BatchCursor)
    \/ FetchAll(BatchCursor)

SpecFetch == InitBatch /\ [][NextFetch]_vars

\* A Root is about to be constructed; no connection exists.
InitRoot ==
    /\ phase = "none"
    /\ Installed(NoWorld)
    /\ depth = 0
    /\ callbacks = {}
    /\ root = NoRoot

\* The fields of the Connection, its cursors and the registry.
connvars == <<phase, c, cursors, cursorsNone, cur, nconn, nstmt, nextStmt, depth, callbacks>>

\* Root(name)
RootInit ==
    /\ root.phase = "none"
    /\ \E lib \in Libs, e \in ExAnswers, l \in LegacyAnswers : root' = Root_init(root, lib, e, l)
    /\ UNCHANGED connvars

\* The calls of the connection factory in trace tr.
Made(tr) == SelectSeq(tr, LAMBDA k : k.fn \in {"ads_new_connection", "ads_new_connection_ex"})

\* A Connection asks the Root for a handle.
RootNewConnection ==
    /\ root.phase = "ready"
    /\ Len(Made(root.tr)) < MaxConns
    /\ \E ok \in BOOLEAN : root' = Root_new_connection(root, ok)
    /\ UNCHANGED connvars

\* The Root object is destroyed, after __init__ returned or raised.
RootDel ==
    /\ root.phase \in {"ready", "failed"}
    /\ root' = Root_del(root)
    /\ UNCHANGED connvars

NextRoot == RootInit \/ RootNewConnection \/ RootDel

SpecRoot == InitRoot /\ [][NextRoot]_vars

----------------------------------------------------------------------------
(* Properties *)

\* The native calls of trace tr named fn.
Calls(tr, fn) == SelectSeq(tr, LAMBDA e : e.fn = fn)

\* The native calls of trace tr on statement handles.
StmtCalls(tr) == SelectSeq(tr, LAMBDA e : e.on = "stmt")

\* The world in which the next method call starts after one ended in w.
Again(w) == [w EXCEPT !.tr = <<>>, !.binds = <<>>, !.exc = NoExc, !.ret = <<>>, !.none = FALSE]

\* The exceptions Connection.error translates a native error to.
NativeErrors == {"IntegrityError", "OperationalError"}

\* The counts the executions of a batch report, in order.
Counts(batch) == [k \in 1..Len(batch) |-> batch[k].count]

RECURSIVE SumOf(_)
SumOf(s) == IF s = <<>> THEN 0 ELSE Head(s) + SumOf(Tail(s))

\* The aggregate of per-execution counts: unknown as soon as one is unknown,
\* their sum otherwise.
Aggregate(counts) ==
    IF \E k \in 1..Len(counts) : counts[k] < 0 THEN -1 ELSE SumOf(counts)

\* C1: whatever batch of at most MaxBatch executions a cursor runs, when all
\* of them run the cursor's rowcount ends as the sum of the reported counts
\* if none is negative (0 for no execution) and as -1 if any is negative,
\* whatever later executions report.
BatchRowcountAggregates ==
    \A i \in CursorIds : CanPrepare(i) =>
        \A in \in CountBatches :
            executemany(World, i, in.ok, in.sd, in.batch, 0).cur[i].rowcount
                = Aggregate(Counts(in.batch))

\* C1 witness: the batch cursor has run a batch reporting 2, -1, 3 and holds
\* rowcount -1.
BatchUnknownReached ==
    \E in \in CountBatches :
        /\ Counts(in.batch) = <<2, -1, 3>>
        /\ Installed(executemany(BatchWorld, BatchCursor, in.ok, in.sd, in.batch, 0))
        /\ cur[BatchCursor].rowcount = -1

\* A fetch that failed for want of a result set, the native cursor untouched.
FetchRefused(w) ==
    /\ w.exc = "InterfaceError"
    /\ Calls(w.tr, "ads_fetch_next") = <<>>
    /\ w.nstmt = nstmt

\* C2, as stated: on a cursor whose description is unset, fetchone, every
\* fetchmany and fetchall raise InterfaceError and leave the native cursor
\* where it was.
FetchNeedsResultSet ==
    \A i \in CursorIds : Usable(i) /\ cur[i].description = NoDescription =>
        /\ \A w \in FetchOneOutcomes(i) : FetchRefused(w)
        /\ \A w \in FetchManyOutcomes(i) : FetchRefused(w)
        /\ \A w \in FetchAllOutcomes(i) : FetchRefused(w)

\* An operation that failed for want of a statement, before any native call.
NoStatementRaised(w) == w.exc = "InterfaceError" /\ w.tr = <<>>

\* Every native call on a statement was given a handle.
HandlesPresent(w) == \A k \in 1..Len(w.tr) : w.tr[k].on = "stmt" => w.tr[k].st # "absent"

\* C3: while a cursor holds no statement, get_stmt, columns and values raise
\* InterfaceError before any native call; and no cursor operation, bind
\* inside execute included, gives a native statement call an absent handle.
NoStatementNoCall ==
    \A i \in CursorIds : Usable(i) =>
        /\ cur[i].stmt = PyNone =>
              /\ \A w \in GetStmtOutcomes(i) : NoStatementRaised(w)
              /\ \A w \in ColumnsOutcomes(i) : NoStatementRaised(w)
              /\ \A w \in ValuesOutcomes(i) : NoStatementRaised(w)
        /\ \A w \in GetStmtOutcomes(i) : HandlesPresent(w)
        /\ \A w \in ColumnsOutcomes(i) : HandlesPresent(w)
        /\ \A w \in ValuesOutcomes(i) : HandlesPresent(w)
        /\ \A w \in FetchOneOutcomes(i) : HandlesPresent(w)
        /\ \A w \in FetchManyOutcomes(i) : HandlesPresent(w)
        /\ \A w \in FetchAllOutcomes(i) : HandlesPresent(w)
        /\ HandlesPresent(free_statement(World, i))
        /\ HandlesPresent(Cursor_close(World, i, TRUE))
        /\ CanPrepare(i) => \A w \in ExecuteOutcomes(i) : HandlesPresent(w)

\* C3 witness: a closed cursor whose statement was freed holds no statement,
\* and columns raises on it.
NoStatementReached ==
    \E i \in CursorIds :
        /\ Usable(i) /\ ~cur[i].parent /\ cur[i].stmt = PyNone
        /\ \E h \in StmtHandles : nstmt[h].st = "freed"
        /\ \A w \in ColumnsOutcomes(i) : NoStatementRaised(w)

\* The cursor fields free_statement resets.
Cleared(cu) ==
    /\ cu.stmt = PyNone
    /\ cu.description = NoDescription
    /\ cu.converter = NoConverter
    /\ cu.rowcount = -1

\* free_statement on cursor i took world w0 to world w.
Freed(w0, w, i) ==
    /\ Truthy(w0.cur[i].stmt) =>
          /\ w.tr = <<[fn |-> "ads_free_stmt", on |-> "stmt", h |-> w0.cur[i].stmt, st |-> "live"]>>
          /\ Cleared(w.cur[i])
    /\ ~Truthy(w0.cur[i].stmt) => w = w0
    /\ free_statement(Again(w), i) = Again(w)

\* C4: free_statement on a cursor that holds a handle issues the one call
\* ads_free_stmt on it and leaves stmt, description and converter None and
\* rowcount -1; on a cursor that holds none it issues no call and changes
\* nothing; a second free_statement issues no call and changes nothing.
FreeStatementIdempotent ==
    \A i \in CursorIds : Usable(i) => Freed(World, free_statement(World, i), i)

\* C4 witness: the only cursor, still attached, holds no statement after its
\* statement was freed.
FreedReached ==
    \E i \in CursorIds :
        /\ Usable(i) /\ cur[i].parent /\ Cleared(cur[i])
        /\ \A j \in CursorIds \ {i} : ~cur[j].exists
        /\ \E h \in StmtHandles : nstmt[h].st = "freed"
        /\ free_statement(World, i) = World

\* The transaction-ending calls of trace tr.
Enders(tr) == SelectSeq(tr, LAMBDA e : e.fn \in {"ads_commit", "ads_rollback"})

\* Leaving the block issues the one transaction-ending call that goes with
\* error, on the connected handle.
ExitEnds(error) ==
    Enders(Connection_exit(World, error).tr)
        = <<[fn |-> IF error THEN "ads_rollback" ELSE "ads_commit", on |-> "conn",
             h |-> ConnHandle, st |-> "connected"]>>

\* C5, as stated: leaving a connection-scoped block issues exactly one
\* transaction-ending call, rollback if the block raised and commit if not.
ExitEndsTransaction == InBlock => \A error \in BOOLEAN : ExitEnds(error)

\* C5, amended: leaving a connection-scoped block whose connection still
\* holds its handle issues exactly one transaction-ending call, rollback if
\* the block raised and commit if not; if the connection was closed inside
\* the block, leaving it raises InterfaceError and issues no native call.
ExitEndsTransactionWhileConnected ==
    InBlock =>
        \A error \in BOOLEAN :
            /\ Truthy(c) => ExitEnds(error) /\ Connection_exit(World, error).exc = NoExc
            /\ ~Truthy(c) => NoStatementRaised(Connection_exit(World, error))

\* C5 witness: a block is open on a connected connection, and leaving it
\* rolls back on error and commits otherwise.
ExitReached == InBlock /\ Truthy(c) /\ nconn = "connected" /\ ExitEnds(TRUE) /\ ExitEnds(FALSE)

\* connect() ended in w because ads_connect failed.
ConnectRefused(w) == Calls(w.tr, "ads_connect") # <<>> /\ w.exc # NoExc

\* The new handle was freed once, last, and forgotten; the destruction of
\* the Connection object then issues no native call.
FreedAndForgotten(w) ==
    /\ w.tr[Len(w.tr)]
          = [fn |-> "ads_free_connection", on |-> "conn", h |-> ConnHandle, st |-> "allocated"]
    /\ Len(Calls(w.tr, "ads_free_connection")) = 1
    /\ w.c = PyNone
    /\ w.nconn = "freed"
    /\ \A order \in Orders(w.cursors) : Connection_del(Again(w), order).tr = <<>>

\* C6: a connect whose ads_connect fails frees the new handle with
\* ads_free_connection, once and before the error is raised, and leaves
\* Connection.c None; the destruction of a Connection whose connect failed
\* issues no native call.
FailedConnectFrees ==
    /\ phase = "none" => \A w \in ConnectOutcomes : ConnectRefused(w) => FreedAndForgotten(w)
    /\ phase = "failed" => \A w \in ConnectionDelOutcomes : w.tr = <<>> /\ w.nconn = nconn

\* C6 witness: the Connection was destroyed after ads_connect failed: the
\* handle is freed and close never ran.
FailedConnectReached == phase = "deleted" /\ nconn = "freed" /\ c = PyNone /\ ~cursorsNone

\* C7, as stated: a connect that fails, at either step, raises the error
\* Connection.error translates from ads_error.
ConnectRaisesNativeError ==
    phase = "none" =>
        \A w \in ConnectOutcomes :
            w.exc # NoExc => w.exc \in NativeErrors /\ Calls(w.tr, "ads_error") # <<>>

\* The tracked cursors that hold a statement handle.
Holding == { i \in cursors : Truthy(cur[i].stmt) }

\* Connection.close ended in w: the statements of the tracked cursors were
\* freed, each once, then the handle was disconnected, then freed, and the
\* iteration over the tracking set did not fail.
ClosedInOrder(w) ==
    /\ w.exc = NoExc
    /\ Len(w.tr) = Cardinality(Holding) + 2
    /\ \A k \in 1..Cardinality(Holding) : w.tr[k].fn = "ads_free_stmt" /\ w.tr[k].st = "live"
    /\ \A i \in Holding : \E k \in 1..Cardinality(Holding) : w.tr[k].h = cur[i].stmt
    /\ w.tr[Len(w.tr) - 1]
          = [fn |-> "ads_disconnect", on |-> "conn", h |-> ConnHandle, st |-> "connected"]
    /\ w.tr[Len(w.tr)]
          = [fn |-> "ads_free_connection", on |-> "conn", h |-> ConnHandle, st |-> "disconnected"]
    /\ \A i \in cursors : ~w.cur[i].parent /\ ~Truthy(w.cur[i].stmt)
    /\ w.c = PyNone /\ w.cursorsNone

\* C8: Connection.close on an open connection frees the statement of every
\* tracked cursor and detaches the cursor, then calls ads_disconnect, then
\* ads_free_connection, each once on the connection handle, and the loop
\* over the tracking set ends without an error.
CloseInOrder ==
    phase = "open" /\ Truthy(c) => \A w \in ConnectionCloseOutcomes : ClosedInOrder(w)

\* C8 witness: the connection was closed with two cursors tracked; both are
\* detached and both statements freed.
CloseReached ==
    /\ phase = "open" /\ cursorsNone /\ nconn = "freed"
    /\ \E i, j \in CursorIds :
          /\ i # j
          /\ cur[i].exists /\ ~cur[i].parent /\ cur[j].exists /\ ~cur[j].parent
    /\ \E h, g \in StmtHandles : h # g /\ nstmt[h].st = "freed" /\ nstmt[g].st = "freed"

\* C9, as stated: after Connection.close, begin_transaction, commit,
\* rollback, cancel, error, close, cursor and every execute on a cursor of
\* the connection raise InterfaceError, and none issues a native call.
ClosedConnectionRefuses ==
    phase = "open" /\ cursorsNone =>
        /\ NoStatementRaised(Connection_begin_transaction(World))
        /\ NoStatementRaised(Connection_commit(World))
        /\ NoStatementRaised(Connection_rollback(World))
        /\ \A w \in CancelOutcomes : NoStatementRaised(w)
        /\ \A w \in ErrorOutcomes : NoStatementRaised(w)
        /\ \A w \in ConnectionCloseOutcomes : NoStatementRaised(w)
        /\ NoStatementRaised(Connection_cursor(World))
        /\ \A i \in CursorIds :
              CanPrepare(i) => \A w \in ExecuteOutcomes(i) : NoStatementRaised(w)

\* An access to the statement that raised the translated native error
\* without a native call on a statement.
NativeErrorRaised(w) == w.exc \in NativeErrors /\ StmtCalls(w.tr) = <<>>

\* C10, as stated: while a cursor holds the null handle of a failed
\* prepare, get_stmt, columns and values raise the translated native error
\* and give no native call the null handle.
FailedPrepareCarriesError ==
    \A i \in CursorIds : Usable(i) /\ cur[i].stmt = NullPtr =>
        /\ \A w \in GetStmtOutcomes(i) : NativeErrorRaised(w)
        /\ \A w \in ColumnsOutcomes(i) : NativeErrorRaised(w)
        /\ \A w \in ValuesOutcomes(i) : NativeErrorRaised(w)

\* The position of the execution of batch that fails.
FailsAt(batch) == CHOOSE k \in 1..Len(batch) : ~batch[k].ok

\* executemany over batch ended in w: the translated native error was
\* raised, the executions stopped with the one that failed, and the row
\* count is unknown.
ExecuteFailed(w, i, batch) ==
    /\ w.exc \in NativeErrors
    /\ Len(Calls(w.tr, "ads_error")) = 1
    /\ Len(Calls(w.tr, "ads_execute")) = FailsAt(batch)
    /\ w.tr[Len(w.tr) - 1].fn = "ads_execute"
    /\ w.cur[i].rowcount = -1

\* C11: when an execution of a batch fails, executemany raises the error
\* Connection.error translates from ads_error, runs no later element of the
\* batch, and leaves rowcount -1 whatever the earlier executions counted.
ExecuteFailureRaises ==
    \A i \in CursorIds : CanPrepare(i) =>
        \A in \in ExecFailBatches, rc \in ErrCodes :
            ExecuteFailed(executemany(World, i, in.ok, in.sd, in.batch, rc), i, in.batch)

\* C11 witness: the batch cursor ran a batch whose first execution counted 2
\* rows and whose second failed before a third; rowcount is -1.
ExecuteFailureReached ==
    \E in \in ExecFailBatches, rc \in ErrCodes :
        /\ Len(in.batch) = 3 /\ in.batch[1].count = 2 /\ FailsAt(in.batch) = 2
        /\ Installed(executemany(BatchWorld, BatchCursor, in.ok, in.sd, in.batch, rc))
        /\ cur[BatchCursor].rowcount = -1

\* The cursors whose stmt field is handle h.
Owners(h) == { i \in CursorIds : cur[i].stmt = h }

\* Every native call of the worlds W that is given a statement handle is
\* given one that is live at the time of the call.
OnLive(W) ==
    \A w \in W : \A k \in 1..Len(w.tr) :
        w.tr[k].on = "stmt" /\ w.tr[k].h \in StmtHandles => w.tr[k].st = "live"

\* No call of a cursor method hands a freed statement handle to the library.
CursorCallsOnLive(i) ==
    /\ OnLive(GetStmtOutcomes(i)) /\ OnLive(ColumnsOutcomes(i)) /\ OnLive(ValuesOutcomes(i))
    /\ OnLive(FetchOneOutcomes(i)) /\ OnLive(FetchManyOutcomes(i)) /\ OnLive(FetchAllOutcomes(i))
    /\ OnLive({free_statement(World, i), Cursor_close(World, i, TRUE)})
    /\ CanPrepare(i) => OnLive(ExecuteOutcomes(i))

\* C12: a statement handle ads_prepare returned is held by exactly one cursor
\* while it is live and by none once freed; no method gives a freed handle to
\* a native call (so none is freed twice); and when the connection is no
\* longer connected no statement handle is live.
StatementHandlesOwned ==
    /\ \A h \in StmtHandles :
          /\ nstmt[h].st = "live" => Cardinality(Owners(h)) = 1 /\ nconn = "connected"
          /\ nstmt[h].st # "live" => Owners(h) = {}
          /\ nstmt[h].st = "unalloc" <=> h >= nextStmt
    /\ \A i \in CursorIds : Usable(i) => CursorCallsOnLive(i)
    /\ phase = "open" => OnLive(ConnectionCloseOutcomes)
    /\ phase \in {"open", "failed"} => OnLive(ConnectionDelOutcomes)

\* C12 witness: the first handle was freed by the prepare that returned the
\* second, another cursor holds a third prepare's null result, and closing
\* the connection frees the handle that is live.
StatementHandlesReached ==
    /\ nstmt[1].st = "freed" /\ nstmt[2].st = "live"
    /\ \E i, j \in CursorIds : cur[i].stmt = 2 /\ cur[j].stmt = NullPtr
    /\ \A w \in ConnectionCloseOutcomes :
          /\ Len(Calls(w.tr, "ads_free_stmt")) = 1
          /\ \A h \in StmtHandles : w.nstmt[h].st = "freed"

\* The indices in w.tr of the ads_bind_param and ads_execute calls.
Marks(w) ==
    SelectSeq([t \in 1..Len(w.tr) |-> t],
              LAMBDA t : w.tr[t].fn \in {"ads_bind_param", "ads_execute"})

\* What call t of w.tr is: the parameter index of a bind, -1 for an execute.
Event(w, t) ==
    IF w.tr[t].fn = "ads_execute" THEN -1
    ELSE (CHOOSE b \in { w.binds[n] : n \in 1..Len(w.binds) } : b.at = t).k

\* The ads_bind_param and ads_execute calls of w, in the order issued.
Events(w) == [n \in 1..Len(Marks(w)) |-> Event(w, Marks(w)[n])]

\* The calls positional binding asks for: for each parameter set, the
\* indices 0 .. min(len, n) - 1 in ascending order, then the execute.
RECURSIVE PositionalEvents(_, _)
PositionalEvents(batch, n) ==
    IF batch = <<>> THEN <<>>
    ELSE [k \in 1..Min(Len(Head(batch).params), n) |-> k - 1] \o <<-1>>
         \o PositionalEvents(Tail(batch), n)

\* executemany over batch ended in w without an error, having bound and
\* executed by position.
BoundByPosition(w, in) ==
    /\ w.exc = NoExc
    /\ Events(w) = PositionalEvents(in.batch, Len(in.sd.params))

\* The values of the batch are all int.
AllInt(batch) ==
    \A n \in 1..Len(batch) : \A k \in 1..Len(batch[n].params) : batch[n].params[k].kind = "int"

\* C13: for each parameter set of a batch, exactly min(len(parameters),
\* number of native parameters) parameters are bound, at the indices 0, 1, ...
\* in ascending order and before that set's ads_execute; values beyond the
\* native parameter count are ignored without an error.
PositionalBinding ==
    \A i \in CursorIds : CanPrepare(i) =>
        \A in \in ParamBatches : BoundByPosition(executemany(World, i, in.ok, in.sd, in.batch, 0), in)

\* What holds of C13: batches of int values are bound by position.
PositionalBindingOfNumbers ==
    \A i \in CursorIds : CanPrepare(i) =>
        \A in \in ParamBatches : AllInt(in.batch) =>
            BoundByPosition(executemany(World, i, in.ok, in.sd, in.batch, 0), in)

\* Every parameter w submitted to ads_bind_param for output has a buffer at
\* least as large as the statement sd reports for it.
BuffersKept(w, sd) ==
    \A n \in 1..Len(w.binds) :
        w.binds[n].direction \in {DD_OUTPUT, DD_INPUT_OUTPUT}
            => w.binds[n].buffer_size >= sd.params[w.binds[n].k + 1].buffer_size

\* C19: for every parameter whose direction is OUTPUT or INPUT_OUTPUT, of any
\* type tag, the buffer_size submitted to ads_bind_param is at least the
\* buffer size ads_describe_bind_param reported for it.
OutputBufferKept ==
    \A i \in CursorIds : CanPrepare(i) =>
        \A in \in OutBatches : BuffersKept(executemany(World, i, in.ok, in.sd, in.batch, 0), in.sd)

\* C15: building the column descriptors fails with InternalError when
\* ads_get_column_info fails for some column, and description records no
\* descriptor built from the failed read.
FailedMetadataRaises ==
    \A i \in CursorIds : CanPrepare(i) =>
        \A in \in BadInfoBatches :
            /\ executemany(World, i, in.ok, in.sd, in.batch, 0).exc = "InternalError"
            /\ executemany(World, i, in.ok, in.sd, in.batch, 0).cur[i].description = NoDescription

\* The precision and size the descriptor of a column is to expose.
Exposed(info) ==
    IF info.native_type \in WideTypes
    THEN [precision |-> info.precision \div 2, internal_size |-> info.max_size \div 2]
    ELSE [precision |-> info.precision, internal_size |-> info.max_size]

\* description d exposes every column of cols as Exposed asks.
ExposesAll(d, cols) ==
    /\ Len(d) = Len(cols)
    /\ \A k \in 1..Len(cols) :
          /\ d[k].precision = Exposed(cols[k]).precision
          /\ d[k].internal_size = Exposed(cols[k]).internal_size

\* C16: the descriptor of a wide-character column exposes half the native
\* precision and max_size (10 and 20 for 20 and 40), that of any other
\* column the native values, whatever the other columns of the result set.
WideColumnsHalved ==
    \A i \in CursorIds : CanPrepare(i) =>
        \A in \in DescribeBatches :
            ExposesAll(executemany(World, i, in.ok, in.sd, in.batch, 0).cur[i].description,
                       in.sd.cols)

\* Value v of a column of native type t is as the registry asks: the result
\* of the callback when one is registered for t.
AsRegistered(v, t) == t \in callbacks => v.kind = "converted"

\* Every value of every row of rs is as the registry asks, for the columns
\* description d describes.
RowsConverted(rs, d) ==
    \A n \in 1..Len(rs) : \A k \in 1..Len(d) : AsRegistered(rs[n][k], d[k].native_type)

\* C14: a callback registered for a native type tag is applied to every
\* decoded value of a column of that tag in every row fetchone, fetchmany and
\* fetchall return.
ConvertersApplied ==
    \A i \in CursorIds : Usable(i) /\ cur[i].description # NoDescription =>
        /\ \A w \in FetchAllOutcomes(i) :
              w.exc = NoExc => RowsConverted(w.ret, cur[i].description)
        /\ \A w \in FetchManyOutcomes(i) :
              w.exc = NoExc => RowsConverted(w.ret, cur[i].description)
        /\ \A w \in FetchOneOutcomes(i) :
              w.exc = NoExc /\ ~w.none => RowsConverted(<<w.ret>>, cur[i].description)

\* Cursor i stands before a row of a result set with a column of a type tag
\* mk_valueof has no rule for.
BeforeUnknownTag(i) ==
    /\ Usable(i) /\ Truthy(cur[i].stmt) /\ cur[i].description # NoDescription
    /\ NativePos(World, i) < nstmt[cur[i].stmt].total
    /\ \E k \in 1..Len(NativeCols(World, i)) : NativeCols(World, i)[k].type \in UnknownTags

\* C20: decoding a non-null value whose type tag is A_INVALID_TYPE or above
\* A_TIMESTAMP fails with DataError.
UnknownTagRaisesDataError ==
    \A i \in CursorIds : BeforeUnknownTag(i) =>
        /\ \A w \in FetchOneOutcomes(i) : w.exc = "DataError"
        /\ \A w \in FetchAllOutcomes(i) : w.exc = "DataError"

\* The extended protocol succeeds on library lib with answer e; the legacy
\* one with answer l.
ExSucceeds(lib, e) == lib.ex /\ e.context # NullPtr /\ e.ver = API_VERSION_EX

LegacySucceeds(lib, l) == lib.legacy /\ l.ret /\ l.ver = API_VERSION

\* The names of the native calls of trace tr.
Names(tr) == [k \in 1..Len(tr) |-> tr[k].fn]

\* Root r was initialised as negotiation asks, for library lib and answers e
\* and l.
Negotiated(r, lib, e, l) ==
    /\ lib.ex => Names(r.tr)[1] = "ads_init_ex"
    /\ ExSucceeds(lib, e) =>
          /\ r.phase = "ready" /\ Names(r.tr) = <<"ads_init_ex">>
          /\ Root_new_connection(r, TRUE).tr[2]
                = [fn |-> "ads_new_connection_ex", context |-> e.context,
                   res |-> ConnHandle, ver |-> PyNone]
    /\ ~ExSucceeds(lib, e) /\ LegacySucceeds(lib, l) =>
          /\ r.phase = "ready"
          /\ Names(Root_new_connection(r, TRUE).tr)[Len(r.tr) + 1] = "ads_new_connection"
    /\ ~ExSucceeds(lib, e) /\ ~LegacySucceeds(lib, l) =>
          r.phase = "failed" /\ r.exc = "InterfaceError"

\* C17: Root.__init__ tries the extended protocol first and the legacy one
\* only if the extended entry point is unavailable, returns no context or
\* reports a mismatched version; the factory is bound to the protocol that
\* succeeded; if both fail, construction fails with InterfaceError.
RootInitNegotiates ==
    root.phase = "none" =>
        \A lib \in Libs, e \in ExAnswers, l \in LegacyAnswers :
            Negotiated(Root_init(root, lib, e, l), lib, e, l)

\* What holds of C17: the same on the libraries that export ads_init.
RootInitNegotiatesWithLegacy ==
    root.phase = "none" =>
        \A lib \in Libs, e \in ExAnswers, l \in LegacyAnswers :
            lib.legacy => Negotiated(Root_init(root, lib, e, l), lib, e, l)

\* The finalize calls of trace tr.
Finalizers(tr) == SelectSeq(tr, LAMBDA k : k.fn \in {"ads_fini", "ads_fini_ex"})

\* The initialisation call of Root r that succeeded, if one did.
Succeeded(r) ==
    SelectSeq(r.tr, LAMBDA k : \/ k.fn = "ads_init_ex" /\ k.res # NullPtr /\ k.ver = API_VERSION_EX
                               \/ k.fn = "ads_init" /\ k.res = 1 /\ k.ver = API_VERSION)

\* The one finalize call that matches the initialisation call k.
Matching(k) ==
    IF k.fn = "ads_init_ex"
    THEN <<[fn |-> "ads_fini_ex", context |-> k.res, res |-> PyNone, ver |-> PyNone]>>
    ELSE <<[fn |-> "ads_fini", context |-> PyNone, res |-> PyNone, ver |-> PyNone]>>

\* C18: destroying a Root one of whose protocols succeeded calls the
\* matching finalize routine (ads_fini_ex on the context ads_init_ex
\* returned, otherwise ads_fini) exactly once, as its last native call, and
\* no finalize is called before.
RootFinalizedOnce ==
    Succeeded(root) # <<>> =>
        /\ Len(Succeeded(root)) = 1
        /\ root.phase = "ready" =>
              /\ Finalizers(root.tr) = <<>>
              /\ Finalizers(Root_del(root).tr) = Matching(Succeeded(root)[1])
        /\ root.phase = "deleted" =>
              /\ Finalizers(root.tr) = Matching(Succeeded(root)[1])
              /\ <<root.tr[Len(root.tr)]>> = Matching(Succeeded(root)[1])

\* C18 witness: a Root whose extended protocol succeeded handed out
\* connection handles and was destroyed after one ads_fini_ex call.
RootFinalizedReached ==
    /\ root.phase = "deleted"
    /\ Succeeded(root) # <<>> /\ Succeeded(root)[1].fn = "ads_init_ex"
    /\ Len(Made(root.tr)) = 2
    /\ Len(Finalizers(root.tr)) = 1

\* Cursor i holds a result set every column of which has a decode rule.
HasRows(i) ==
    /\ Usable(i) /\ Truthy(cur[i].stmt) /\ cur[i].description # NoDescription
    /\ \A k \in 1..Len(NativeCols(World, i)) : NativeCols(World, i)[k].type \notin UnknownTags

\* Row r of the result set of cursor i, decoded.
RowAt(i, r) ==
    [k \in 1..Len(NativeCols(World, i)) |-> valueof(NativeValue(NativeCols(World, i)[k], r)).val]

\* Rows a+1 .. b of the result set of cursor i, in native order.
RowsBetween(i, a, b) == [n \in 1..(b - a) |-> RowAt(i, a + n)]

\* The rows left in the result set of cursor i.
Left(i) == nstmt[cur[i].stmt].total - NativePos(World, i)

\* The fetch that ended in w returned the next n rows, in order, moved the
\* native cursor past exactly those, and raised nothing.
Took(w, i, n) ==
    /\ w.exc = NoExc
    /\ w.ret = RowsBetween(i, NativePos(World, i), NativePos(World, i) + n)
    /\ NativePos(w, i) = NativePos(World, i) + n

\* The fetchone that ended in w returned the next row, or None when no row
\* is left, and moved the native cursor past what it returned.
TookOne(w, i) ==
    /\ w.exc = NoExc
    /\ IF Left(i) = 0 THEN w.none /\ NativePos(w, i) = NativePos(World, i)
       ELSE /\ ~w.none /\ w.ret = RowAt(i, NativePos(World, i) + 1)
            /\ NativePos(w, i) = NativePos(World, i) + 1

DescribesOwn(w, x) ==
    /\ x.exists /\ x.parent /\ w.nconn = "connected"
    /\ x.stmt \in StmtHandles
    /\ w.nstmt[x.stmt].st = "live"
    /\ Len(x.description) = Len(w.nstmt[x.stmt].cols)
    /\ \A k \in 1..Len(x.description) :
          x.description[k].native_type = w.nstmt[x.stmt].cols[k].native_type

\* Every cursor of world w has a description only for its own live
\* statement, and a converter exactly when it has a description.
DescriptionsFresh(w) ==
    \A i \in CursorIds :
        /\ w.cur[i].description # NoDescription => DescribesOwn(w, w.cur[i])
        /\ w.cur[i].converter # NoConverter <=> w.cur[i].description # NoDescription

\* C22: in every reachable state, a cursor's description is set only if the
\* cursor is attached to a connection and holds a live statement handle,
\* whose columns it describes, and converter is set exactly when description
\* is; re-prepare, free_statement, Cursor.close and Connection.close leave
\* no description of an earlier statement behind.
DescriptionOnlyOfLiveStatement == DescriptionsFresh(World)

\* C22 witness: a cursor has the description of a query, and a further
\* execute of an update, free_statement, Cursor.close and Connection.close
\* each leave it without one.
DescriptionClearedReached ==
    \E i \in CursorIds :
        /\ CanPrepare(i) /\ cur[i].description # NoDescription
        /\ \A w \in ExecuteOutcomes(i) :
              w.cur[i].description # NoDescription => w.nstmt[w.cur[i].stmt].cols # <<>>
        /\ \E w \in ExecuteOutcomes(i) : w.exc = NoExc /\ w.cur[i].description = NoDescription
        /\ free_statement(World, i).cur[i].description = NoDescription
        /\ Cursor_close(World, i, TRUE).cur[i].description = NoDescription
        /\ \A w \in ConnectionCloseOutcomes : w.cur[i].description = NoDescription

\* C23: a finalize routine is called on a Root only if one of its
\* initialisation protocols succeeded; a Root whose construction failed
\* under both has none called when it is destroyed.
FinalizeOnlyAfterInit == Finalizers(root.tr) # <<>> => Succeeded(root) # <<>>

====
